---- MODULE Spec2Model ----
(***************************************************************************)
(* A model of sudns01's ResolverClient (src/sudns01/clients/resolver.py):  *)
(* the two dnspython stub resolvers it owns and its three lookups,         *)
(* get_ip, get_txt and get_zone_name, with _check_has_cdname.              *)
(*                                                                         *)
(* The dnspython resolver is outside the repository.  What it hands back   *)
(* (an exception, or an answer with its sections) is an input, drawn from  *)
(* bounded sets.                                                           *)
(*                                                                         *)
(* A DNS name is the tuple of its labels, as dns.name.Name.labels: an      *)
(* absolute name ends with the empty root label "".                        *)
(***************************************************************************)
EXTENDS Integers, Sequences, FiniteSets, TLC

VARIABLES
    resolver,           \* self._resolver: the resolver with a cache
    resolver_nocache,   \* self._resolver_nocache: the resolver without one
    pc,                 \* "idle", "resolving" (get_zone_name awaits the engine), "done"
    op,                 \* the method called: "none", "get_ip", "get_txt", "get_zone_name"
    args,               \* the arguments of the top-level call
    frame,              \* the query argument of the innermost get_zone_name frame
    queries,            \* the engine calls issued during the call, in order
    replies,            \* what the engine handed back for each of them, in order
    outcome             \* how the call ended: a returned value or a raised error

vars == <<resolver, resolver_nocache, pc, op, args, frame, queries, replies, outcome>>

----------------------------------------------------------------------------
(* Bounds *)

MaxLabels == 2          \* labels before the root label in a query name
MaxAnswer == 2          \* RRsets in an Answer section
MaxAuthority == 1       \* RRsets in an Authority section
MaxAddrs == 3           \* addresses a host answer yields
MaxTxt == 2             \* TXT records in an RRset
MaxStrings == 2         \* character-strings in a TXT record
MaxChain == 1           \* CNAME/DNAME RRsets ahead of a TXT answer

----------------------------------------------------------------------------
(* Program constants *)

RESOLVER_TIMEOUT == 10
CACHE_CLEAN_INTERVAL == 300

\* dns.resolver.Resolver(configure=True) leaves lifetime at dnspython's
\* default (Resolver.reset) and cache at None.
DefaultLifetime == 5
NoCache == <<>>
\* dns.resolver.Cache(cleaning_interval=...)
Cache(cleaning_interval) == <<cleaning_interval>>

----------------------------------------------------------------------------
(* Sequences *)

SeqsUpTo(S, n) == UNION {[1..k -> S] : k \in 0..n}
NonEmptySeqsUpTo(S, n) == UNION {[1..k -> S] : k \in 1..n}

RECURSIVE SelectSeq2(_, _)
\* the subsequence of s whose elements are in S
SelectSeq2(s, S) ==
    IF s = <<>> THEN <<>>
    ELSE IF Head(s) \in S THEN <<Head(s)>> \o SelectSeq2(Tail(s), S)
    ELSE SelectSeq2(Tail(s), S)

----------------------------------------------------------------------------
(* Names *)

Labels == {"a", "b"}
root == <<"">>

RelNames == NonEmptySeqsUpTo(Labels, MaxLabels)
AbsNames == {n \o root : n \in SeqsUpTo(Labels, MaxLabels)}

is_absolute(n) == Len(n) > 0 /\ n[Len(n)] = ""

\* dns.name.Name.parent(): the name without its leftmost label
parent(n) == Tail(n)

\* The query argument is a dns.name.Name or a str; a str stands for the
\* name its text denotes.
Queries == [form : {"Name", "str"}, name : AbsNames \cup RelNames]

\* The names get_ip and get_txt are called with: they pass the name on as
\* it is.
LookupQueries == {q \in Queries : Len(q.name) = 1}

\* The name in the question of the response: a relative qname is made
\* absolute by the resolver when search is off.
question_name(query) ==
    IF is_absolute(query.name) THEN query.name ELSE query.name \o root

----------------------------------------------------------------------------
(* Engine replies *)

RedirectTypes == {"CNAME", "DNAME"}
AnswerTypes == {"SOA", "CNAME", "DNAME", "RRSIG"}
AuthorityTypes == {"SOA", "NS"}

\* The apexes an SOA record may be owned by
ZoneOwners == {<<l>> \o root : l \in Labels}

\* The RRsets of an Answer section: the redirects and signatures are owned
\* by the name asked for, an SOA record by a zone apex.
AnswerRecords(query) ==
    [name : {question_name(query)}, rdtype : AnswerTypes \ {"SOA"}]
    \cup [name : ZoneOwners, rdtype : {"SOA"}]

AnswerSections(query) == SeqsUpTo(AnswerRecords(query), MaxAnswer)
AuthoritySections == SeqsUpTo([name : ZoneOwners, rdtype : AuthorityTypes], MaxAuthority)

Bytes == {"x", "y"}
TxtRdatas == NonEmptySeqsUpTo(Bytes, MaxStrings)
NoRRset == <<>>
TxtRRsets == NonEmptySeqsUpTo(TxtRdatas, MaxTxt)

V6 == {"::1", "::2"}
V4 == {"1.1.1.1", "2.2.2.2"}

Reply(status, question, answer, authority, rrset, addresses) ==
    [status |-> status, question |-> question, answer |-> answer,
     authority |-> authority, rrset |-> rrset, addresses |-> addresses]

ErrorReply(status) == Reply(status, <<>>, <<>>, <<>>, NoRRset, <<>>)

ResolveErrors == {"NXDOMAIN", "NoNameservers", "LifetimeTimeout", "YXDOMAIN"}

\* resolve(rdtype=SOA, raise_on_no_answer=False)
SoaReplies(query) ==
    {ErrorReply(e) : e \in ResolveErrors} \cup
    {Reply("NOERROR", question_name(query), an, au, NoRRset, <<>>) :
        an \in AnswerSections(query), au \in AuthoritySections}

\* resolve(rdtype=TXT, raise_on_no_answer=False): the Answer section is the
\* chain of redirects followed, then the TXT RRset when there is one.
TxtAnswer(query, chain, rrset) ==
    [i \in 1..Len(chain) |-> [name |-> question_name(query), rdtype |-> chain[i]]]
    \o (IF rrset = NoRRset THEN <<>>
        ELSE <<[name |-> question_name(query), rdtype |-> "TXT"]>>)

TxtReplies(query) ==
    {ErrorReply(e) : e \in ResolveErrors} \cup
    {Reply("NOERROR", question_name(query), TxtAnswer(query, ch, rr), <<>>, rr, <<>>) :
        ch \in SeqsUpTo(RedirectTypes, MaxChain), rr \in {NoRRset} \cup TxtRRsets}

\* resolve_name(family): what answers.addresses() yields, in the order the
\* engine yields it.  AF_INET asks for A records only.
IpReplies(query, family) ==
    {ErrorReply(e) : e \in ResolveErrors \cup {"NoAnswer"}} \cup
    {Reply("NOERROR", question_name(query), <<>>, <<>>, NoRRset, ad) :
        ad \in NonEmptySeqsUpTo(IF family = "AF_UNSPEC" THEN V6 \cup V4 ELSE V4, MaxAddrs)}

----------------------------------------------------------------------------
(* Outcomes *)

NoOutcome == [kind |-> "none", value |-> <<>>, error |-> "none"]
Return(v) == [kind |-> "return", value |-> v, error |-> "none"]
Raise(e) == [kind |-> "raise", value |-> <<>>, error |-> e]
Recurse(q) == [kind |-> "recurse", value |-> q, error |-> "none"]

NoArgs == [query |-> [form |-> "Name", name |-> root], cached |-> TRUE,
           ipv6 |-> TRUE, search |-> TRUE, raise_on_cdname |-> TRUE]

----------------------------------------------------------------------------
(* ResolverClient.__init__ *)

NewResolver == [cache |-> NoCache, retry_servfail |-> FALSE, lifetime |-> DefaultLifetime]

init_resolver ==
    [NewResolver EXCEPT !.cache = Cache(CACHE_CLEAN_INTERVAL),
                        !.retry_servfail = TRUE,
                        !.lifetime = RESOLVER_TIMEOUT]

\* Lines 87-88 assign to self._resolver again, so the second resolver keeps
\* what its constructor gave it.
init_resolver_nocache == NewResolver

Init ==
    /\ resolver = init_resolver
    /\ resolver_nocache = init_resolver_nocache
    /\ pc = "idle"
    /\ op = "none"
    /\ args = NoArgs
    /\ frame = NoArgs.query
    /\ queries = <<>>
    /\ replies = <<>>
    /\ outcome = NoOutcome

\* resolver = (self._resolver if cached is True else self._resolver_nocache)
select_resolver(cached) == IF cached THEN "_resolver" ELSE "_resolver_nocache"

EngineCall(cached, query, rdtype, search) ==
    [engine |-> select_resolver(cached), qname |-> query, rdtype |-> rdtype, search |-> search]

----------------------------------------------------------------------------
(* ResolverClient._check_has_cdname *)

redirects_found(answer) ==
    Cardinality({i \in 1..Len(answer.answer) : answer.answer[i].rdtype \in RedirectTypes})

\* the two outcomes of a found redirect exchanged
check_has_cdname_swapped(answer, raise_on_cdname) ==
    IF redirects_found(answer) > 0
    THEN IF raise_on_cdname
         THEN [raised |-> FALSE, value |-> TRUE]
         ELSE [raised |-> TRUE, value |-> FALSE]
    ELSE [raised |-> FALSE, value |-> FALSE]

\* raised: ResolverErrorCDName was raised; value: the value returned otherwise
_check_has_cdname(answer, raise_on_cdname) ==
    IF redirects_found(answer) > 0
    THEN IF raise_on_cdname
         THEN [raised |-> TRUE, value |-> FALSE]
         ELSE [raised |-> FALSE, value |-> TRUE]
    ELSE [raised |-> FALSE, value |-> FALSE]

----------------------------------------------------------------------------
(* ResolverClient.get_ip *)

family_of(ipv6) == IF ipv6 THEN "AF_UNSPEC" ELSE "AF_INET"

\* the addresses regrouped, IPv4 first
address_list_v4_first(answers) ==
    SelectSeq2(answers.addresses, V4) \o SelectSeq2(answers.addresses, V6)

\* addresses = list(answers.addresses())
address_list(answers) == answers.addresses

\* NoAnswer left out of the first except clause
get_ip_result_no_answer_raises(reply) ==
    IF reply.status = "NXDOMAIN" THEN Return(<<>>)
    ELSE IF reply.status = "NoAnswer" THEN Raise("NoAnswer")
    ELSE IF reply.status \in {"NoNameservers", "LifetimeTimeout"} THEN Raise("ResolverError")
    ELSE IF reply.status = "YXDOMAIN" THEN Raise("ResolverErrorPermanent")
    ELSE Return(address_list(reply))

get_ip_result(reply) ==
    IF reply.status \in {"NXDOMAIN", "NoAnswer"} THEN Return(<<>>)
    ELSE IF reply.status \in {"NoNameservers", "LifetimeTimeout"} THEN Raise("ResolverError")
    ELSE IF reply.status = "YXDOMAIN" THEN Raise("ResolverErrorPermanent")
    ELSE Return(address_list(reply))

get_ip(query, cached, ipv6, search) ==
    /\ pc = "idle"
    /\ \E reply \in IpReplies(query, family_of(ipv6)) :
        /\ queries' = <<EngineCall(cached, query, family_of(ipv6), search)>>
        /\ replies' = <<reply>>
        /\ outcome' = get_ip_result(reply)
    /\ op' = "get_ip"
    /\ args' = [NoArgs EXCEPT !.query = query, !.cached = cached,
                              !.ipv6 = ipv6, !.search = search]
    /\ frame' = query
    /\ pc' = "done"
    /\ UNCHANGED <<resolver, resolver_nocache>>

----------------------------------------------------------------------------
(* ResolverClient.get_txt *)

\* the comparison off by one: len(entries) > 2
txt_entry_off_by_one(entries) ==
    IF Len(entries) > 2
    THEN [type |-> "tuple", strings |-> entries]
    ELSE [type |-> "bytes", strings |-> <<entries[1]>>]

\* (entries if len(entries) > 1 else entries[0]): a tuple of bytes, or bytes
txt_entry(entries) ==
    IF Len(entries) > 1
    THEN [type |-> "tuple", strings |-> entries]
    ELSE [type |-> "bytes", strings |-> <<entries[1]>>]

get_txt_result(reply, raise_on_cdname) ==
    IF reply.status = "NXDOMAIN" THEN Return(<<>>)
    ELSE IF reply.status \in {"NoNameservers", "LifetimeTimeout"} THEN Raise("ResolverError")
    ELSE IF reply.status = "YXDOMAIN" THEN Raise("ResolverErrorPermanent")
    ELSE IF _check_has_cdname(reply, raise_on_cdname).raised THEN Raise("ResolverErrorCDName")
    ELSE IF reply.rrset = NoRRset THEN Return(<<>>)
    ELSE Return([i \in 1..Len(reply.rrset) |-> txt_entry(reply.rrset[i])])

get_txt(query, cached, search, raise_on_cdname) ==
    /\ pc = "idle"
    /\ \E reply \in TxtReplies(query) :
        /\ queries' = <<EngineCall(cached, query, "TXT", search)>>
        /\ replies' = <<reply>>
        /\ outcome' = get_txt_result(reply, raise_on_cdname)
    /\ op' = "get_txt"
    /\ args' = [NoArgs EXCEPT !.query = query, !.cached = cached,
                              !.search = search, !.raise_on_cdname = raise_on_cdname]
    /\ frame' = query
    /\ pc' = "done"
    /\ UNCHANGED <<resolver, resolver_nocache>>

----------------------------------------------------------------------------
(* ResolverClient.get_zone_name *)

\* isinstance(query, dns.name.Name) and not query.is_absolute()
not_fqdn(query) == query.form = "Name" /\ ~is_absolute(query.name)

\* The SOA record is looked for in the Answer section, then the first
\* record of the Authority section is taken.
RECURSIVE first_soa(_)
first_soa(section) ==
    IF section = <<>> THEN <<>>
    ELSE IF Head(section).rdtype = "SOA" THEN <<Head(section)>>
    ELSE first_soa(Tail(section))

find_zone(answer) ==
    IF first_soa(answer.answer) # <<>> THEN Return(first_soa(answer.answer)[1].name)
    ELSE IF Len(answer.authority) > 0 THEN Return(answer.authority[1].name)
    ELSE Raise("ResolverErrorPermanent")

\* NXDOMAIN handled with the nameserver failures
get_zone_name_result_nxdomain_retryable(reply, raise_on_cdname) ==
    IF reply.status \in {"NXDOMAIN", "NoNameservers", "LifetimeTimeout"} THEN Raise("ResolverError")
    ELSE IF reply.status = "YXDOMAIN" THEN Raise("ResolverErrorPermanent")
    ELSE IF _check_has_cdname(reply, raise_on_cdname).raised
         THEN IF raise_on_cdname THEN Raise("ResolverErrorCDName")
              ELSE IF reply.question = root THEN Raise("NoParent")
              ELSE Recurse([form |-> "Name", name |-> parent(reply.question)])
    ELSE find_zone(reply)

\* the retry taken on the returned flag, and for the question's own name
get_zone_name_result_retry_same_name(reply, raise_on_cdname) ==
    IF reply.status = "NXDOMAIN" THEN Raise("ResolverErrorPermanent")
    ELSE IF reply.status \in {"NoNameservers", "LifetimeTimeout"} THEN Raise("ResolverError")
    ELSE IF reply.status = "YXDOMAIN" THEN Raise("ResolverErrorPermanent")
    ELSE IF _check_has_cdname(reply, raise_on_cdname).raised THEN Raise("ResolverErrorCDName")
    ELSE IF _check_has_cdname(reply, raise_on_cdname).value
         THEN Recurse([form |-> "Name", name |-> reply.question])
    ELSE find_zone(reply)

\* What the frame does with the engine's reply: return, raise, or call
\* itself on the parent of the question's name.  The except clause runs
\* only when _check_has_cdname raised.
get_zone_name_result(reply, raise_on_cdname) ==
    IF reply.status = "NXDOMAIN" THEN Raise("ResolverErrorPermanent")
    ELSE IF reply.status \in {"NoNameservers", "LifetimeTimeout"} THEN Raise("ResolverError")
    ELSE IF reply.status = "YXDOMAIN" THEN Raise("ResolverErrorPermanent")
    ELSE IF _check_has_cdname(reply, raise_on_cdname).raised
         THEN IF raise_on_cdname THEN Raise("ResolverErrorCDName")
              ELSE IF reply.question = root THEN Raise("NoParent")
              ELSE Recurse([form |-> "Name", name |-> parent(reply.question)])
    ELSE find_zone(reply)

\* Entering a frame: the FQDN check, before anything is asked of the engine.
enter_frame(query) ==
    /\ frame' = query
    /\ IF not_fqdn(query)
       THEN /\ outcome' = Raise("ValueError")
            /\ pc' = "done"
       ELSE /\ outcome' = NoOutcome
            /\ pc' = "resolving"

get_zone_name(query, cached, raise_on_cdname) ==
    /\ pc = "idle"
    /\ op' = "get_zone_name"
    /\ args' = [NoArgs EXCEPT !.query = query, !.cached = cached,
                              !.raise_on_cdname = raise_on_cdname]
    /\ enter_frame(query)
    /\ queries' = <<>>
    /\ replies' = <<>>
    /\ UNCHANGED <<resolver, resolver_nocache>>

\* The blocking resolver.resolve() of the innermost frame comes back, and the
\* frame runs to its return, its raise, or the call of the next frame.
zone_resolve ==
    /\ pc = "resolving"
    /\ op = "get_zone_name"
    /\ \E reply \in SoaReplies(frame) :
        LET res == get_zone_name_result(reply, args.raise_on_cdname) IN
        /\ queries' = Append(queries, EngineCall(args.cached, frame, "SOA", FALSE))
        /\ replies' = Append(replies, reply)
        /\ IF res.kind = "recurse"
           THEN enter_frame(res.value)
           ELSE /\ outcome' = res
                /\ pc' = "done"
                /\ frame' = frame
    /\ UNCHANGED <<resolver, resolver_nocache, op, args>>

\* The caller takes the result; the client is ready for the next call.
finish ==
    /\ pc = "done"
    /\ pc' = "idle"
    /\ op' = "none"
    /\ args' = NoArgs
    /\ frame' = NoArgs.query
    /\ queries' = <<>>
    /\ replies' = <<>>
    /\ outcome' = NoOutcome
    /\ UNCHANGED <<resolver, resolver_nocache>>

----------------------------------------------------------------------------

Next ==
    \/ \E q \in LookupQueries, cached \in BOOLEAN, ipv6 \in BOOLEAN, search \in BOOLEAN :
          get_ip(q, cached, ipv6, search)
    \/ \E q \in LookupQueries, cached \in BOOLEAN, search \in BOOLEAN, roc \in BOOLEAN :
          get_txt(q, cached, search, roc)
    \/ \E q \in Queries, cached \in BOOLEAN, roc \in BOOLEAN :
          get_zone_name(q, cached, roc)
    \/ zone_resolve
    \/ finish

Spec == Init /\ [][Next]_vars

----------------------------------------------------------------------------
(* Properties *)

TypeOK ==
    /\ pc \in {"idle", "resolving", "done"}
    /\ op \in {"none", "get_ip", "get_txt", "get_zone_name"}
    /\ Len(queries) = Len(replies)

ZoneDone == pc = "done" /\ op = "get_zone_name"
TxtDone == pc = "done" /\ op = "get_txt"
IpDone == pc = "done" /\ op = "get_ip"

Answered(reply) == reply.status = "NOERROR"
HasRedirect(reply) == \E i \in 1..Len(reply.answer) : reply.answer[i].rdtype \in RedirectTypes
HasSoa(section) == \E i \in 1..Len(section) : section[i].rdtype = "SOA"
FirstSoaIndex(section) ==
    CHOOSE i \in 1..Len(section) :
        /\ section[i].rdtype = "SOA"
        /\ \A j \in 1..(i - 1) : section[j].rdtype # "SOA"

\* The first answer of a finished get_zone_name call on an absolute name
ZoneAnswered ==
    /\ ZoneDone
    /\ is_absolute(args.query.name)
    /\ Len(replies) >= 1
    /\ Answered(replies[1])

\* C1: with raise_on_cdname false, a first answer holding a CNAME or DNAME is
\* followed by a second SOA query, for the parent of the queried name.
C1_RetryOnParent ==
    (ZoneAnswered /\ ~args.raise_on_cdname /\ HasRedirect(replies[1])
        /\ Len(args.query.name) > 1)
    => /\ Len(queries) >= 2
       /\ queries[2].qname.name = parent(args.query.name)

\* C2: a get_zone_name call on a non-absolute name, given as a Name or as a
\* str, raises ValueError and asks nothing of either resolver.
C2_NonAbsoluteRejected ==
    (op = "get_zone_name" /\ ~is_absolute(args.query.name))
    => /\ queries = <<>>
       /\ pc = "done" => outcome = Raise("ValueError")

\* C3: with raise_on_cdname true, an answer holding a CNAME or DNAME makes
\* get_zone_name raise ResolverErrorCDName after exactly one query.
C3_RaiseOnCdname ==
    (ZoneAnswered /\ args.raise_on_cdname /\ HasRedirect(replies[1]))
    => /\ outcome = Raise("ResolverErrorCDName")
       /\ Len(queries) = 1

C3_Witness ==
    /\ ZoneAnswered /\ args.raise_on_cdname /\ HasRedirect(replies[1])
    /\ Len(args.query.name) > 1
    /\ outcome.error = "ResolverErrorCDName"

\* C4: on an answer without CNAME or DNAME, the name get_zone_name returns is
\* the owner of the first SOA record of the Answer section when there is one,
\* and otherwise the owner of an SOA record of the Authority section.
C4_ReturnsSoaOwner ==
    (ZoneAnswered /\ ~HasRedirect(replies[1]) /\ outcome.kind = "return")
    => IF HasSoa(replies[1].answer)
       THEN outcome.value = replies[1].answer[FirstSoaIndex(replies[1].answer)].name
       ELSE \E i \in 1..Len(replies[1].authority) :
               /\ replies[1].authority[i].rdtype = "SOA"
               /\ replies[1].authority[i].name = outcome.value

V6BeforeV4(addrs) ==
    \A i, j \in 1..Len(addrs) : (addrs[i] \in V4 /\ addrs[j] \in V6) => j < i

C6_TxtEntries ==
    (TxtDone /\ outcome.kind = "return")
    => /\ Len(outcome.value) = Len(replies[1].rrset)
       /\ \A i \in 1..Len(replies[1].rrset) :
            IF Len(replies[1].rrset[i]) = 1
            THEN outcome.value[i] = [type |-> "bytes", strings |-> replies[1].rrset[i]]
            ELSE outcome.value[i] = [type |-> "tuple", strings |-> replies[1].rrset[i]]

C6_Witness ==
    /\ TxtDone /\ outcome.kind = "return"
    /\ replies[1].rrset = <<<<"x">>, <<"y", "x">>>>
    /\ outcome.value = <<[type |-> "bytes", strings |-> <<"x">>],
                         [type |-> "tuple", strings |-> <<"y", "x">>]>>

\* The engine found nothing: NXDOMAIN, NoAnswer, or (raise_on_no_answer
\* being off for TXT) an answer without a TXT RRset.
Absent(reply) ==
    \/ reply.status \in {"NXDOMAIN", "NoAnswer"}
    \/ op = "get_txt" /\ Answered(reply) /\ reply.rrset = NoRRset

\* C7: get_txt and get_ip return an empty list, and raise nothing, whenever
\* the engine found no such name or no record of the type, also when that was
\* reached through a CNAME or DNAME, for every value of the flags.
C7_AbsenceIsEmpty ==
    ((TxtDone \/ IpDone) /\ Absent(replies[1]))
    => outcome = Return(<<>>)

\* C7, amended: as C7, except that get_txt with raise_on_cdname true raises
\* ResolverErrorCDName when the answer without a TXT RRset holds a CNAME or
\* DNAME.
C7_AbsenceIsEmptyUnlessCdname ==
    ((TxtDone \/ IpDone) /\ Absent(replies[1]))
    => IF op = "get_txt" /\ args.raise_on_cdname
          /\ Answered(replies[1]) /\ HasRedirect(replies[1])
       THEN outcome = Raise("ResolverErrorCDName")
       ELSE outcome = Return(<<>>)

C7_Witness ==
    /\ TxtDone /\ ~args.raise_on_cdname
    /\ Answered(replies[1]) /\ HasRedirect(replies[1])
    /\ replies[1].rrset = NoRRset
    /\ outcome = Return(<<>>)

\* C8: the failure of a get_zone_name call on an absolute name follows from
\* its one engine outcome: NXDOMAIN and YXDOMAIN give ResolverErrorPermanent,
\* NoNameservers and a timeout give ResolverError, an answer without redirect,
\* without SOA in the Answer section and with an empty Authority section gives
\* ResolverErrorPermanent; one query was issued in each case.
C8_FailureKinds ==
    (ZoneDone /\ is_absolute(args.query.name) /\ Len(replies) >= 1)
    => /\ replies[1].status \in {"NXDOMAIN", "YXDOMAIN"}
            => (outcome = Raise("ResolverErrorPermanent") /\ Len(queries) = 1)
       /\ replies[1].status \in {"NoNameservers", "LifetimeTimeout"}
            => (outcome = Raise("ResolverError") /\ Len(queries) = 1)
       /\ (Answered(replies[1]) /\ ~HasRedirect(replies[1])
             /\ ~HasSoa(replies[1].answer) /\ replies[1].authority = <<>>)
            => (outcome = Raise("ResolverErrorPermanent") /\ Len(queries) = 1)

C8_Witness ==
    /\ ZoneDone /\ is_absolute(args.query.name)
    /\ Len(queries) = 1
    /\ replies[1].status = "NXDOMAIN"
    /\ outcome = Raise("ResolverErrorPermanent")

\* C9: both resolvers have the lifetime RESOLVER_TIMEOUT, only the first has
\* a cache, with cleaning interval CACHE_CLEAN_INTERVAL, and a call asks only
\* the resolver its cached argument selects.
C9_EnginesConfigured ==
    /\ resolver.lifetime = RESOLVER_TIMEOUT
    /\ resolver_nocache.lifetime = RESOLVER_TIMEOUT
    /\ resolver.cache = Cache(CACHE_CLEAN_INTERVAL)
    /\ resolver_nocache.cache = NoCache
    /\ \A i \in 1..Len(queries) :
          queries[i].engine = (IF args.cached THEN "_resolver" ELSE "_resolver_nocache")

\* C10: within a get_zone_name call on an absolute name, each query after the
\* first is for the previous query's name without its leftmost label, and no
\* more queries are issued than the name has labels: while the call waits for
\* the engine, fewer have been issued.
C10_BoundedWalk ==
    (op = "get_zone_name" /\ is_absolute(args.query.name))
    => /\ \A i \in 2..Len(queries) :
             queries[i].qname.name = parent(queries[i - 1].qname.name)
       /\ Len(queries) <= Len(args.query.name)
       /\ pc = "resolving" => Len(queries) < Len(args.query.name)

C10_Witness ==
    /\ ZoneAnswered /\ ~args.raise_on_cdname /\ HasRedirect(replies[1])
    /\ Len(args.query.name) = 3
    /\ Len(queries) = 1
    /\ outcome.kind = "return"

====
